---- MODULE Spec2Model ----
(***************************************************************************)
(* A model of sarif_cli/signature.py: the signature engine (_signature,    *)
(* _signature_dict, _signature_list) with its typedef registry (Context),  *)
(* and the schema normalizer (fillsig, fillsig_dict, fillsig_list).        *)
(***************************************************************************)
EXTENDS Integers, Sequences, FiniteSets, TLC

VARIABLES
    args,       \* the options object: typedef_signatures, unique_array_signatures
    elem,       \* the document handed to the top-level call
    context,    \* the Context of the running pass: sig_to_typedef, sig_count
    stack,      \* the active _signature calls, innermost last
    ret,        \* the value returned by the top-level _signature call
    status,     \* "running", "returned" or "raised" for the running pass
    pair,       \* two documents, each signed by a pass of its own
    outcome,    \* the results of the two passes over pair
    fillin,     \* the value handed to fillsig
    fillout     \* the result of fillsig

vars == <<args, elem, context, stack, ret, status, pair, outcome, fillin, fillout>>

(***************************************************************************)
(* Bounds of the model.                                                    *)
(***************************************************************************)
\* Documents signed by the engine have at most this many nodes.
MaxNodes == 4
\* Documents handed to fillsig have at most this many nodes.
MaxFillNodes == 4

Min(S) == CHOOSE x \in S : \A y \in S : x <= y

(***************************************************************************)
(* JSON values as Python holds them.  t is the runtime type, v the value   *)
(* of an int, kids the items of a dict in insertion order (key, val) or    *)
(* the elements of a list (key unused).                                    *)
(***************************************************************************)
Scalar(t, v) == [t |-> t, v |-> v, kids |-> <<>>]
Item(key, val) == [key |-> key, val |-> val]
Dict(items) == [t |-> "dict", v |-> 0, kids |-> items]
List(elems) == [t |-> "list", v |-> 0,
                kids |-> [i \in 1..Len(elems) |-> Item("", elems[i])]]

Keys(e) == {e.kids[i].key : i \in 1..Len(e.kids)}
\* elem[key] of a dict
Lookup(e, key) == e.kids[CHOOSE i \in 1..Len(e.kids) : e.kids[i].key = key].val

(***************************************************************************)
(* Python strings are compared by code point.  Lexicon lists, in that      *)
(* order, every string the model handles; a generated name is a text       *)
(* followed by decimal digits.                                             *)
(***************************************************************************)
Lexicon == << "", "Array", "Bool", "Int", "None", "String", "Struct", "a", "array",
              "artifactLocation", "b", "bool", "c", "charLength", "endColumn",
              "endLine", "int", "region", "startColumn", "startLine", "string",
              "struct", "unknown", "uri" >>
Rank(s) == CHOOSE i \in 1..Len(Lexicon) : Lexicon[i] = s

\* SortKeys with the order reversed, as sorted(..., reverse=True) would give
RECURSIVE SortKeys_Descending(_)
SortKeys_Descending(S) ==
    IF S = {} THEN <<>>
    ELSE LET m == CHOOSE k \in S : \A o \in S : Rank(k) >= Rank(o)
         IN  <<m>> \o SortKeys_Descending(S \ {m})

\* sorted(keys) / keys.sort() on a collection of distinct str keys
RECURSIVE SortKeys(_)
SortKeys(S) ==
    IF S = {} THEN <<>>
    ELSE LET m == CHOOSE k \in S : \A o \in S : Rank(k) <= Rank(o)
         IN  <<m>> \o SortKeys(S \ {m})

(***************************************************************************)
(* Signatures as the Python values the code builds: a str ("int",          *)
(* "Struct003"), or a tuple ("struct", (key, sig), ...),                   *)
(* ("array", (i, sig), ...), ("unknown", raw).                             *)
(***************************************************************************)
PyStr(text, digits) == [py |-> "str", text |-> text, digits |-> digits, fields |-> <<>>]
PyTuple(head, fields) == [py |-> "tuple", text |-> head, digits |-> <<>>, fields |-> fields]
PyNone == [py |-> "NoneType", text |-> "None", digits |-> <<>>, fields |-> <<>>]
\* (key, sig) of a struct, (idx, sig) of an array, the raw value of an unknown
Field(key, idx, sig) == [key |-> key, idx |-> idx, sig |-> sig]

TF(b) == IF b THEN "T" ELSE "F"

\* lexicographic order of two sequences of digits
SeqLt(a, b) ==
    LET n == IF Len(a) < Len(b) THEN Len(a) ELSE Len(b)
        D == {i \in 1..n : a[i] # b[i]}
    IN  IF D = {} THEN Len(a) < Len(b) ELSE a[Min(D)] < b[Min(D)]

\* x < y on two str
StrLt(x, y) ==
    IF x.text # y.text THEN TF(Rank(x.text) < Rank(y.text))
    ELSE TF(SeqLt(x.digits, y.digits))

\* x < y as Python evaluates it: "T", "F", or "E" for the TypeError of an
\* unorderable pair (str against tuple, None against anything).
RECURSIVE PyLt(_, _)
PyLt(x, y) ==
    IF x.py = "str" /\ y.py = "str" THEN StrLt(x, y)
    ELSE IF x.py = "tuple" /\ y.py = "tuple" THEN
        IF x.text # y.text THEN TF(Rank(x.text) < Rank(y.text))
        ELSE LET n == IF Len(x.fields) < Len(y.fields)
                      THEN Len(x.fields) ELSE Len(y.fields)
                 D == {i \in 1..n : x.fields[i] # y.fields[i]}
             IN  IF D = {} THEN TF(Len(x.fields) < Len(y.fields))
                 ELSE LET fx == x.fields[Min(D)]
                          fy == y.fields[Min(D)]
                      IN  IF fx.key # fy.key THEN TF(Rank(fx.key) < Rank(fy.key))
                          ELSE IF fx.idx # fy.idx THEN TF(fx.idx < fy.idx)
                          ELSE PyLt(fx.sig, fy.sig)
    ELSE "E"

\* list.sort() raises TypeError exactly when two of the values are unorderable:
\* a comparison sort must order every adjacent pair of its output, and nothing
\* orderable against both sides of an unorderable pair lies between them.
SortRaises(S) == \E x, y \in S : x # y /\ PyLt(x, y) = "E"

\* sig = list(sig); sig.sort()
RECURSIVE list_sort(_)
list_sort(S) ==
    IF S = {} THEN <<>>
    ELSE LET m == CHOOSE x \in S : \A y \in S \ {x} : PyLt(x, y) = "T"
         IN  <<m>> \o list_sort(S \ {m})

(***************************************************************************)
(* "Struct%03d" % n: the decimal digits of n, zero-padded to width 3.      *)
(***************************************************************************)
RECURSIVE Decimal(_)
Decimal(n) == IF n < 10 THEN <<n>> ELSE Decimal(n \div 10) \o <<n % 10>>

Format03d(n) ==
    LET d == Decimal(n)
    IN  IF Len(d) >= 3 THEN d ELSE [i \in 1..(3 - Len(d)) |-> 0] \o d

(***************************************************************************)
(* Context: sig_to_typedef as its (signature, typedef) entries in          *)
(* insertion order, and sig_count.                                         *)
(***************************************************************************)
Entry(sig, typedef) == [sig |-> sig, typedef |-> typedef]
Context(map, count) == [sig_to_typedef |-> map, sig_count |-> count]

\* The registry a pass starts from: the three scalar names, counter 0.
SeededContext ==
    Context(<< Entry(PyStr("string", <<>>), PyStr("String", <<>>)),
               Entry(PyStr("int", <<>>), PyStr("Int", <<>>)),
               Entry(PyStr("bool", <<>>), PyStr("Bool", <<>>)) >>, 0)

\* signature in context.sig_to_typedef
Has(map, sig) == \E i \in 1..Len(map) : map[i].sig = sig
\* context.sig_to_typedef[signature]
Typedef(map, sig) == map[CHOOSE i \in 1..Len(map) : map[i].sig = sig].typedef

\* A result of a call: the value it returns, the context it leaves, and the
\* exception it raised ("" when it returned).
Returned(sig, ctx) == [sig |-> sig, context |-> ctx, err |-> ""]
Raised(err, ctx) == [sig |-> PyNone, context |-> ctx, err |-> err]

\* Internalize without context.sig_count += 1
Internalize_NoIncrement(prefix, signature, ctx) ==
    LET named ==
            IF Has(ctx.sig_to_typedef, signature) THEN ctx
            ELSE Context(Append(ctx.sig_to_typedef,
                                Entry(signature,
                                      PyStr(prefix, Format03d(ctx.sig_count)))),
                         ctx.sig_count)
    IN  Returned(Typedef(named.sig_to_typedef, signature), named)

\* Internalize with context.sig_count += 1 outside the if: every lookup counts
Internalize_CountsLookups(prefix, signature, ctx) ==
    LET named ==
            IF Has(ctx.sig_to_typedef, signature)
            THEN Context(ctx.sig_to_typedef, ctx.sig_count + 1)
            ELSE Context(Append(ctx.sig_to_typedef,
                                Entry(signature,
                                      PyStr(prefix, Format03d(ctx.sig_count)))),
                         ctx.sig_count + 1)
    IN  Returned(Typedef(named.sig_to_typedef, signature), named)

\* Give every unique struct or array a name and use a reference to it as value.
Internalize(prefix, signature, ctx) ==
    LET named ==
            IF Has(ctx.sig_to_typedef, signature) THEN ctx
            ELSE Context(Append(ctx.sig_to_typedef,
                                Entry(signature,
                                      PyStr(prefix, Format03d(ctx.sig_count)))),
                         ctx.sig_count + 1)
    IN  Returned(Typedef(named.sig_to_typedef, signature), named)

\* The scalar branches of _signature, and its last branch.
ScalarSignature(a, e, ctx) ==
    IF e.t = "str" THEN
        IF a.typedef_signatures
        THEN Returned(Typedef(ctx.sig_to_typedef, PyStr("string", <<>>)), ctx)
        ELSE Returned(PyStr("string", <<>>), ctx)
    ELSE IF e.t = "int" THEN
        IF a.typedef_signatures
        THEN Returned(Typedef(ctx.sig_to_typedef, PyStr("int", <<>>)), ctx)
        ELSE Returned(PyStr("int", <<>>), ctx)
    ELSE IF e.t = "bool" THEN
        IF a.typedef_signatures
        THEN Returned(Typedef(ctx.sig_to_typedef, PyStr("bool", <<>>)), ctx)
        ELSE Returned(PyStr("bool", <<>>), ctx)
    ELSE Returned(PyTuple("unknown", <<Field("", 0, PyNone)>>), ctx)

\* _signature_dict once sig holds the signature of every value (sigs[i] that of
\* the i-th item): sort the keys, form ("struct", (key, sig)...), name it.
StructSignature(a, e, sigs, ctx) ==
    LET keys == SortKeys(Keys(e))
        sig(key) == sigs[CHOOSE i \in 1..Len(e.kids) : e.kids[i].key = key]
        signature == PyTuple("struct",
                             [i \in 1..Len(keys) |-> Field(keys[i], 0, sig(keys[i]))])
    IN  IF a.typedef_signatures
        THEN Internalize("Struct", signature, ctx)
        ELSE Returned(signature, ctx)

\* enumerate(sig): (0, s0), (1, s1), ...
Enumerate(sigs) == [i \in 1..Len(sigs) |-> Field("", i - 1, sigs[i])]

\* ArraySignature taking the unique branch whatever the option says
ArraySignature_AlwaysUnique(a, sigs, ctx) ==
    LET unique == {sigs[i] : i \in 1..Len(sigs)}
    IN  IF SortRaises(unique)
        THEN Raised("TypeError", ctx)
        ELSE LET signature == PyTuple("array", Enumerate(list_sort(unique)))
             IN  IF a.typedef_signatures
                 THEN Internalize("Array", signature, ctx)
                 ELSE Returned(signature, ctx)

\* _signature_list once the signature of every element is known.
ArraySignature(a, sigs, ctx) ==
    LET unique == {sigs[i] : i \in 1..Len(sigs)}
    IN  IF a.unique_array_signatures /\ SortRaises(unique)
        THEN Raised("TypeError", ctx)
        ELSE LET signature ==
                     IF a.unique_array_signatures
                     THEN PyTuple("array", Enumerate(list_sort(unique)))
                     ELSE PyTuple("array", Enumerate(sigs))
             IN  IF a.typedef_signatures
                 THEN Internalize("Array", signature, ctx)
                 ELSE Returned(signature, ctx)

(***************************************************************************)
(* The recursive functions, as functions from (args, elem, context) to a   *)
(* result.                                                                 *)
(***************************************************************************)
RECURSIVE _signature(_, _, _)
RECURSIVE SignatureEach(_, _, _, _)

\* for ... in elem: _signature(args, val, context), the first n children, left
\* to right, each in the context the one before left.
SignatureEach(a, e, n, ctx) ==
    IF n = 0 THEN [sigs |-> <<>>, context |-> ctx, err |-> ""]
    ELSE LET before == SignatureEach(a, e, n - 1, ctx)
         IN  IF before.err # "" THEN before
             ELSE LET r == _signature(a, e.kids[n].val, before.context)
                  IN  [sigs |-> Append(before.sigs, r.sig),
                       context |-> r.context, err |-> r.err]

\* _signature_dict visiting the values in sorted key order, not insertion order
_signature_dict_SortedVisit(a, e, ctx) ==
    LET keys == SortKeys(Keys(e))
        sorted == Dict([i \in 1..Len(keys) |-> Item(keys[i], Lookup(e, keys[i]))])
        each == SignatureEach(a, sorted, Len(keys), ctx)
    IN  IF each.err # "" THEN Raised(each.err, each.context)
        ELSE StructSignature(a, sorted, each.sigs, each.context)

_signature_dict(a, e, ctx) ==
    LET each == SignatureEach(a, e, Len(e.kids), ctx)
    IN  IF each.err # "" THEN Raised(each.err, each.context)
        ELSE StructSignature(a, e, each.sigs, each.context)

_signature_list(a, e, ctx) ==
    LET each == SignatureEach(a, e, Len(e.kids), ctx)
    IN  IF each.err # "" THEN Raised(each.err, each.context)
        ELSE ArraySignature(a, each.sigs, each.context)

_signature(a, e, ctx) ==
    IF e.t = "dict" THEN _signature_dict(a, e, ctx)
    ELSE IF e.t = "list" THEN _signature_list(a, e, ctx)
    ELSE ScalarSignature(a, e, ctx)

(***************************************************************************)
(* The documents the passes are run on: every value tree of a bounded      *)
(* number of nodes over the four runtime types of a leaf and the keys      *)
(* SigKeys, a dict's keys in every insertion order.                        *)
(***************************************************************************)
Leaves == {Scalar("str", 0), Scalar("int", 0), Scalar("bool", 0), Scalar("none", 0)}
SigKeys == {"a", "b"}

\* every sequence of k distinct keys of K
KeySeqs(K, k) == {s \in [1..k -> K] : \A i, j \in 1..k : s[i] = s[j] => i = j}

RECURSIVE Trees(_, _, _, _)
RECURSIVE Forests(_, _, _, _, _)
\* the sequences of k trees of m nodes in all
Forests(S, K, lists, k, m) ==
    IF k = 0 THEN (IF m = 0 THEN {<<>>} ELSE {})
    ELSE UNION {{<<t>> \o f : t \in Trees(S, K, lists, i),
                              f \in Forests(S, K, lists, k - 1, m - i)}
                : i \in 1..(m - k + 1)}
\* the trees whose children are the forest f: a leaf of S when f is empty, a dict
\* over keys of K in any insertion order, and a list when lists is TRUE
TreesOver(S, K, lists, f) ==
    (IF f = <<>> THEN S ELSE {})
    \cup (IF lists THEN {List(f)} ELSE {})
    \cup {Dict([i \in 1..Len(f) |-> Item(ks[i], f[i])]) : ks \in KeySeqs(K, Len(f))}
\* the trees of exactly n nodes
Trees(S, K, lists, n) ==
    UNION {UNION {TreesOver(S, K, lists, f) : f \in Forests(S, K, lists, k, n - 1)}
           : k \in 0..(n - 1)}

Options == [typedef_signatures : BOOLEAN, unique_array_signatures : BOOLEAN]

(***************************************************************************)
(* One pass, call by call.  A frame of the stack is an active call of      *)
(* _signature: its elem and the signatures collected so far from its       *)
(* children.                                                               *)
(***************************************************************************)
Frame(e) == [elem |-> e, sigs |-> <<>>]
Top == stack[Len(stack)]
IsContainer(e) == e.t \in {"dict", "list"}

\* A call ends with result r: an exception unwinds every caller; a return of the
\* top-level call ends the pass; any other return hands the signature to the
\* caller's loop.
Deliver(r) ==
    /\ context' = r.context
    /\ IF r.err # ""
       THEN /\ status' = "raised"
            /\ stack' = <<>>
            /\ ret' = PyNone
       ELSE IF Len(stack) = 1
       THEN /\ status' = "returned"
            /\ stack' = <<>>
            /\ ret' = r.sig
       ELSE /\ stack' = [SubSeq(stack, 1, Len(stack) - 1) EXCEPT
                           ![Len(stack) - 1].sigs = Append(@, r.sig)]
            /\ UNCHANGED <<ret, status>>

NoPair == <<>>
NoFill == Scalar("none", 0)

InitPass ==
    /\ args \in Options
    /\ \E n \in 1..MaxNodes : \E k \in 0..(n - 1) :
           \E f \in Forests(Leaves, SigKeys, TRUE, k, n - 1) :
               elem \in TreesOver(Leaves, SigKeys, TRUE, f)
    /\ context = SeededContext
    /\ stack = <<Frame(elem)>>
    /\ ret = PyNone
    /\ status = "running"
    /\ pair = NoPair
    /\ outcome = NoPair
    /\ fillin = NoFill
    /\ fillout = NoFill

\* The loop of _signature_dict or _signature_list calls _signature on the next child.
Call ==
    /\ status = "running"
    /\ IsContainer(Top.elem)
    /\ Len(Top.sigs) < Len(Top.elem.kids)
    /\ stack' = Append(stack, Frame(Top.elem.kids[Len(Top.sigs) + 1].val))
    /\ UNCHANGED <<args, elem, context, ret, status, pair, outcome, fillin, fillout>>

\* _signature on a str, an int, a bool or a value of any other type returns.
SignatureScalar ==
    /\ status = "running"
    /\ ~IsContainer(Top.elem)
    /\ Deliver(ScalarSignature(args, Top.elem, context))
    /\ UNCHANGED <<args, elem, pair, outcome, fillin, fillout>>

\* _signature_dict, its loop over, sorts, forms the struct, names it and returns.
SignatureDict ==
    /\ status = "running"
    /\ Top.elem.t = "dict"
    /\ Len(Top.sigs) = Len(Top.elem.kids)
    /\ Deliver(StructSignature(args, Top.elem, Top.sigs, context))
    /\ UNCHANGED <<args, elem, pair, outcome, fillin, fillout>>

\* _signature_list, its loop over, forms the array, names it and returns, or
\* raises from sig.sort().
SignatureList ==
    /\ status = "running"
    /\ Top.elem.t = "list"
    /\ Len(Top.sigs) = Len(Top.elem.kids)
    /\ Deliver(ArraySignature(args, Top.sigs, context))
    /\ UNCHANGED <<args, elem, pair, outcome, fillin, fillout>>

Next == Call \/ SignatureScalar \/ SignatureDict \/ SignatureList

Spec == InitPass /\ [][Next]_vars

(***************************************************************************)
(* Two independent passes, each from a freshly seeded registry, over a     *)
(* document and a variant of it: the same document with the keys of its    *)
(* objects in another order, or a list over the same elements in another   *)
(* order and multiplicity.                                                 *)
(***************************************************************************)
Perms(n) == {p \in [1..n -> 1..n] : \A i, j \in 1..n : p[i] = p[j] => i = j}

RECURSIVE Reorderings(_)
RECURSIVE ReorderEach(_, _)
\* the sequences of n values, the i-th a reordering of the i-th child of e
ReorderEach(e, n) ==
    IF n = 0 THEN {<<>>}
    ELSE {Append(c, r) : c \in ReorderEach(e, n - 1), r \in Reorderings(e.kids[n].val)}
\* e with the keys of every object in it in any order
Reorderings(e) ==
    IF e.t = "dict"
    THEN {Dict([i \in 1..Len(e.kids) |-> Item(e.kids[p[i]].key, c[p[i]])])
          : p \in Perms(Len(e.kids)), c \in ReorderEach(e, Len(e.kids))}
    ELSE IF e.t = "list"
    THEN {List(c) : c \in ReorderEach(e, Len(e.kids))}
    ELSE {e}

\* the lists with the elements of list e: in any order, or with one of them once
\* more at the end
Rearrangements(e) ==
    LET n == Len(e.kids)
        at(i) == e.kids[i].val
    IN  {List([i \in 1..n |-> at(p[i])]) : p \in Perms(n)}
        \cup {List([i \in 1..(n + 1) |-> IF i <= n THEN at(n + 1 - i) ELSE at(j)])
              : j \in 1..n}

Variants(e) == Reorderings(e) \cup (IF e.t = "list" THEN Rearrangements(e) ELSE {})

Pending == [sig |-> PyNone, context |-> SeededContext, err |-> "pending"]

InitPair ==
    /\ args \in Options
    /\ \E n \in 1..MaxNodes : \E k \in 0..(n - 1) :
           \E f \in Forests(Leaves, SigKeys, TRUE, k, n - 1) :
               \E d \in TreesOver(Leaves, SigKeys, TRUE, f) :
                   \E e \in Variants(d) : pair = <<d, e>>
    /\ outcome = <<Pending, Pending>>
    /\ elem = NoFill
    /\ context = SeededContext
    /\ stack = <<>>
    /\ ret = PyNone
    /\ status = "idle"
    /\ fillin = NoFill
    /\ fillout = NoFill

\* The first pass: _signature(args, pair[1], context) on a fresh context.
SignFirst ==
    /\ pair # NoPair
    /\ outcome[1] = Pending
    /\ outcome' = [outcome EXCEPT ![1] = _signature(args, pair[1], SeededContext)]
    /\ UNCHANGED <<args, elem, context, stack, ret, status, pair, fillin, fillout>>

\* The second pass, on a fresh context of its own.
SignSecond ==
    /\ pair # NoPair
    /\ outcome[1] # Pending
    /\ outcome[2] = Pending
    /\ outcome' = [outcome EXCEPT ![2] = _signature(args, pair[2], SeededContext)]
    /\ UNCHANGED <<args, elem, context, stack, ret, status, pair, fillin, fillout>>

NextPair == SignFirst \/ SignSecond

SpecPair == InitPair /\ [][NextPair]_vars

(***************************************************************************)
(* Fill missing elements.                                                  *)
(***************************************************************************)
region_keys == {"endColumn", "endLine", "startColumn", "startLine"}
physicalLocation_keys == {"artifactLocation", "region"}

PyInt(n) == Scalar("int", n)

\* Return a region with needed keys and "empty" entries -1
dummy_region ==
    Dict(<< Item("endColumn", PyInt(-1)), Item("endLine", PyInt(-1)),
            Item("startColumn", PyInt(-1)), Item("startLine", PyInt(-1)) >>)

\* traverse.lineinfo(elem): (startLine, startColumn, endLine, endColumn), each
\* the integer elem holds under that key, -1 when it holds none.
lineinfo(e) ==
    LET resolve(key) == IF key \in Keys(e) /\ Lookup(e, key).t = "int"
                        THEN Lookup(e, key).v ELSE -1
    IN  <<resolve("startLine"), resolve("startColumn"),
          resolve("endLine"), resolve("endColumn")>>

\* RegionFill without the loop that copies the rest of the keys
RegionFill_DropsRest(e) ==
    LET li == lineinfo(e)
    IN  [key \in region_keys |->
            IF key = "endColumn" THEN PyInt(li[4])
            ELSE IF key = "endLine" THEN PyInt(li[3])
            ELSE IF key = "startColumn" THEN PyInt(li[2])
            ELSE PyInt(li[1])]

\* Supplement all missing fields for a 'region': full_elem as a map from key to
\* value (its insertion order is never read: only sorted(full_elem.keys())).
RegionFill(e) ==
    LET li == lineinfo(e)
    IN  [key \in region_keys \cup Keys(e) |->
            IF key = "endColumn" THEN PyInt(li[4])
            ELSE IF key = "endLine" THEN PyInt(li[3])
            ELSE IF key = "startColumn" THEN PyInt(li[2])
            ELSE IF key = "startLine" THEN PyInt(li[1])
            ELSE Lookup(e, key)]

\* PhysicalLocationFill with elem.get('region') and no default: a missing region
\* stays missing
PhysicalLocationFill_NoDefault(e) == [key \in Keys(e) |-> Lookup(e, key)]

\* full_elem for a physicalLocation: elem.get('region', dummy_region()) and the rest
PhysicalLocationFill(e) ==
    [key \in {"region"} \cup Keys(e) |->
        IF key = "region"
        THEN (IF "region" \in Keys(e) THEN Lookup(e, "region") ELSE dummy_region)
        ELSE Lookup(e, key)]

\* the first half of fillsig_dict: which full_elem the key set selects
FullElem(e) ==
    IF region_keys \cap Keys(e) # {} THEN RegionFill(e)
    ELSE IF physicalLocation_keys \cap Keys(e) # {} THEN PhysicalLocationFill(e)
    ELSE [key \in Keys(e) |-> Lookup(e, key)]

Filled(val) == [val |-> val, err |-> ""]
FillRaised(err) == [val |-> Scalar("none", 0), err |-> err]

RECURSIVE fillsig(_, _, _)
RECURSIVE FillEach(_, _, _, _)
\* fillsig of the first n of vals in turn; the first exception ends the loop
FillEach(a, vals, n, ctx) ==
    IF n = 0 THEN [vals |-> <<>>, err |-> ""]
    ELSE LET before == FillEach(a, vals, n - 1, ctx)
         IN  IF before.err # "" THEN before
             ELSE LET r == fillsig(a, vals[n], ctx)
                  IN  [vals |-> Append(before.vals, r.val), err |-> r.err]

fillsig_dict(a, e, ctx) ==
    LET full_elem == FullElem(e)
        keys == SortKeys(DOMAIN full_elem)
        each == FillEach(a, [i \in 1..Len(keys) |-> full_elem[keys[i]]], Len(keys), ctx)
    IN  IF each.err # "" THEN FillRaised(each.err)
        ELSE Filled(Dict([i \in 1..Len(keys) |-> Item(keys[i], each.vals[i])]))

fillsig_list(a, e, ctx) ==
    LET each == FillEach(a, [i \in 1..Len(e.kids) |-> e.kids[i].val], Len(e.kids), ctx)
    IN  IF each.err # "" THEN FillRaised(each.err)
        ELSE Filled(List(each.vals))

fillsig(a, e, ctx) ==
    IF e.t = "dict" THEN fillsig_dict(a, e, ctx)
    ELSE IF e.t = "list" THEN fillsig_list(a, e, ctx)
    ELSE IF e.t \in {"str", "int", "bool"} THEN Filled(e)
    ELSE FillRaised("Exception")

(***************************************************************************)
(* The values fillsig is run on: objects over FillKeys with int leaves,     *)
(* nested to a bounded number of nodes, lists of such objects, and every   *)
(* kind of leaf.                                                           *)
(***************************************************************************)
FillLeaves == {PyInt(7)}
FillKeys == {"artifactLocation", "charLength", "endColumn", "region", "startLine", "uri"}

InitFill ==
    /\ \E n \in 1..MaxFillNodes : \E k \in 0..(n - 1) :
           \E f \in Forests(FillLeaves, FillKeys, FALSE, k, n - 1) :
               fillin \in TreesOver(FillLeaves, FillKeys, FALSE, f) \cup {List(f)} \cup Leaves
    /\ fillout = NoFill
    /\ status = "idle"
    /\ args \in Options
    /\ elem = NoFill
    /\ context = SeededContext
    /\ stack = <<>>
    /\ ret = PyNone
    /\ pair = NoPair
    /\ outcome = NoPair

\* fillsig(args, elem, context) on the whole value
Fillsig ==
    /\ status = "idle"
    /\ LET r == fillsig(args, fillin, context)
       IN  /\ fillout' = r.val
           /\ status' = IF r.err = "" THEN "filled" ELSE "raised"
    /\ UNCHANGED <<args, elem, context, stack, ret, pair, outcome, fillin>>

NextFill == Fillsig

SpecFill == InitFill /\ [][NextFill]_vars

(***************************************************************************)
(* Properties.                                                             *)
(***************************************************************************)
\* every value occurring in e, e included
RECURSIVE Nodes(_)
Nodes(e) == {e} \cup UNION {Nodes(e.kids[i].val) : i \in 1..Len(e.kids)}
Containers(e) == {x \in Nodes(e) : IsContainer(x)}

\* Structural identity of two values under an array policy: the same runtime
\* type; for objects the same keys with structurally identical values; for
\* arrays the same shapes position by position, or, under the unique policy,
\* the same set of element shapes.
RECURSIVE SameShape(_, _, _)
SameShape(unique, x, y) ==
    /\ x.t = y.t
    /\ x.t = "dict" =>
          /\ Keys(x) = Keys(y)
          /\ \A k \in Keys(x) : SameShape(unique, Lookup(x, k), Lookup(y, k))
    /\ x.t = "list" =>
          IF unique
          THEN /\ \A i \in 1..Len(x.kids) : \E j \in 1..Len(y.kids) :
                     SameShape(unique, x.kids[i].val, y.kids[j].val)
               /\ \A j \in 1..Len(y.kids) : \E i \in 1..Len(x.kids) :
                     SameShape(unique, x.kids[i].val, y.kids[j].val)
          ELSE /\ Len(x.kids) = Len(y.kids)
               /\ \A i \in 1..Len(x.kids) :
                     SameShape(unique, x.kids[i].val, y.kids[i].val)

\* y is x with the keys of its objects, at any depth, in another order
RECURSIVE SameUpToKeyOrder(_, _)
SameUpToKeyOrder(x, y) ==
    /\ x.t = y.t
    /\ x.v = y.v
    /\ IF x.t = "dict"
       THEN /\ Keys(x) = Keys(y)
            /\ Len(x.kids) = Len(y.kids)
            /\ \A k \in Keys(x) : SameUpToKeyOrder(Lookup(x, k), Lookup(y, k))
       ELSE /\ Len(x.kids) = Len(y.kids)
            /\ \A i \in 1..Len(x.kids) : SameUpToKeyOrder(x.kids[i].val, y.kids[i].val)

\* no leaf of another runtime type than str, int, bool
WellFormed(e) == \A x \in Nodes(e) : x.t # "none"

\* the number a generated name ends with
RECURSIVE DecimalValue(_)
DecimalValue(d) ==
    IF d = <<>> THEN 0
    ELSE 10 * DecimalValue(SubSeq(d, 1, Len(d) - 1)) + d[Len(d)]
IsGenerated(name) == name.py = "str" /\ name.text \in {"Struct", "Array"}
\* the generated entries of a registry: those after the three seeded names
Generated(map) == {i \in 1..Len(map) : IsGenerated(map[i].typedef)}

\* the name the registry of the finished pass gives a value of the document
NameOf(x) == _signature(args, x, context)

\* C1: with typedef_signatures on, no two entries of sig_to_typedef ever hold the
\* same name, and once the pass has returned every object or array of the
\* document has its name in the registry, two of them having the same name
\* exactly when they are structurally identical.
C1_Deduplication ==
    args.typedef_signatures =>
        /\ \A i, j \in 1..Len(context.sig_to_typedef) :
              context.sig_to_typedef[i].typedef = context.sig_to_typedef[j].typedef
                  => i = j
        /\ status = "returned" =>
              \A x, y \in Containers(elem) :
                  /\ NameOf(x).err = ""
                  /\ NameOf(x).context = context
                  /\ IsGenerated(NameOf(x).sig)
                  /\ SameShape(args.unique_array_signatures, x, y)
                         <=> NameOf(x).sig = NameOf(y).sig

\* a finished pass over {k1: x, k2: x} with x an object or array, another
\* container in the document being of another shape
C1_Witness ==
    /\ args.typedef_signatures
    /\ status = "returned"
    /\ elem.t = "dict"
    /\ Len(elem.kids) = 2
    /\ IsContainer(elem.kids[1].val)
    /\ elem.kids[1].val = elem.kids[2].val
    /\ context.sig_count = 2

\* C4: with both options off, a returned pass over a list of n elements returns
\* ("array", (0, s0), ..., (n-1, s(n-1))), si the signature of the element at
\* position i; the pass never raises.
C4_PositionalArray ==
    (~args.typedef_signatures /\ ~args.unique_array_signatures /\ elem.t = "list") =>
        /\ status # "raised"
        /\ status = "returned" =>
              /\ ret.py = "tuple"
              /\ ret.text = "array"
              /\ Len(ret.fields) = Len(elem.kids)
              /\ \A i \in 1..Len(elem.kids) :
                    /\ ret.fields[i].idx = i - 1
                    /\ ret.fields[i].sig =
                           _signature(args, elem.kids[i].val, SeededContext).sig

\* a returned positional pass over a list of three elements, two of them alike
C4_Witness ==
    /\ ~args.typedef_signatures
    /\ ~args.unique_array_signatures
    /\ status = "returned"
    /\ elem.t = "list"
    /\ Len(elem.kids) = 3
    /\ elem.kids[1].val = elem.kids[2].val
    /\ elem.kids[2].val # elem.kids[3].val

\* C7: a pass over a value tree of booleans, integers, strings, arrays and
\* objects never raises, under any options; a value of another runtime type
\* yields ("unknown", value).
C7_RunsToCompletion ==
    /\ WellFormed(elem) => status # "raised"
    /\ (elem.t = "none" /\ status = "returned") =>
           ret = PyTuple("unknown", <<Field("", 0, PyNone)>>)

\* C8: with typedef_signatures on, in every state of a pass the k-th generated
\* entry carries counter value k - 1 and sig_count is the number of generated
\* entries (one shared counter, one step per new entry, no value twice), and a
\* generated name inside an entry's shape carries a smaller value than the
\* entry's own name.
C8_PostOrderNaming ==
    args.typedef_signatures =>
        LET map == context.sig_to_typedef
        IN  /\ context.sig_count = Cardinality(Generated(map))
            /\ \A i \in Generated(map) :
                  /\ DecimalValue(map[i].typedef.digits)
                         = Cardinality({j \in Generated(map) : j < i})
                  /\ \A f \in 1..Len(map[i].sig.fields) :
                        IsGenerated(map[i].sig.fields[f].sig) =>
                            DecimalValue(map[i].sig.fields[f].sig.digits)
                                < DecimalValue(map[i].typedef.digits)

\* a pass still running whose registry holds a Struct entry and an Array entry,
\* one of them referring to the other
C8_Witness ==
    /\ args.typedef_signatures
    /\ status = "running"
    /\ LET map == context.sig_to_typedef
       IN  \E i, j \in Generated(map) :
              /\ map[i].typedef.text # map[j].typedef.text
              /\ \E f \in 1..Len(map[i].sig.fields) :
                    map[i].sig.fields[f].sig = map[j].typedef

Done == outcome # NoPair /\ outcome[1] # Pending /\ outcome[2] # Pending

\* C2: for an object and the same object with its keys, and those of the
\* objects nested in it, in another order, the two passes, under any options,
\* return, and return the same signature.
C2_KeyOrderInvariance ==
    (Done /\ pair[1].t = "dict" /\ SameUpToKeyOrder(pair[1], pair[2])) =>
        /\ outcome[1].err = ""
        /\ outcome[2].err = ""
        /\ outcome[1].sig = outcome[2].sig

\* Where both passes of C2 end, they end alike: the same signature returned, or
\* the same exception raised.
KeyOrderInvariantOutcome ==
    (Done /\ SameUpToKeyOrder(pair[1], pair[2])) =>
        /\ outcome[1].err = outcome[2].err
        /\ outcome[1].sig = outcome[2].sig

\* the two lists have the same set of distinct element shapes
SameShapeSet(unique, x, y) ==
    /\ x.t = "list"
    /\ y.t = "list"
    /\ \A i \in 1..Len(x.kids) : \E j \in 1..Len(y.kids) :
          SameShape(unique, x.kids[i].val, y.kids[j].val)
    /\ \A j \in 1..Len(y.kids) : \E i \in 1..Len(x.kids) :
          SameShape(unique, x.kids[i].val, y.kids[j].val)

\* the array shape a result stands for: the tuple itself, or the registry entry
\* the returned name was given to
ArrayOf(r) ==
    IF r.sig.py = "tuple" THEN r.sig
    ELSE LET map == r.context.sig_to_typedef
         IN  IF \E i \in 1..Len(map) : map[i].typedef = r.sig
             THEN map[CHOOSE i \in 1..Len(map) : map[i].typedef = r.sig].sig
             ELSE PyNone

\* r is ("array", (0, s0), ..., (k-1, s(k-1))) over the k distinct signatures of
\* the elements of list x, in ascending order
SortedDistinct(r, x) ==
    LET arr == ArrayOf(r)
        E == {_signature(args, x.kids[i].val, r.context).sig : i \in 1..Len(x.kids)}
    IN  /\ arr.py = "tuple"
        /\ arr.text = "array"
        /\ Len(arr.fields) = Cardinality(E)
        /\ {arr.fields[i].sig : i \in 1..Len(arr.fields)} = E
        /\ \A i \in 1..Len(arr.fields) : arr.fields[i].idx = i - 1
        /\ \A i, j \in 1..Len(arr.fields) :
              i < j => PyLt(arr.fields[i].sig, arr.fields[j].sig) = "T"

\* C3: under the unique policy, two lists with the same set of distinct element
\* shapes get the same signature from the two passes: an Array over the sorted
\* set of distinct element signatures, indexed 0..k-1.
C3_UniqueArrayPolicy ==
    (Done /\ args.unique_array_signatures
          /\ SameShapeSet(TRUE, pair[1], pair[2])) =>
        /\ outcome[1].err = ""
        /\ outcome[2].err = ""
        /\ outcome[1].sig = outcome[2].sig
        /\ SortedDistinct(outcome[1], pair[1])
        /\ SortedDistinct(outcome[2], pair[2])

\* Where both passes of C3 return, they return what C3 says.
UniqueArrayPolicyWhenReturned ==
    (Done /\ args.unique_array_signatures
          /\ SameShapeSet(TRUE, pair[1], pair[2])) =>
        /\ outcome[1].err = outcome[2].err
        /\ outcome[1].err = "" =>
              /\ outcome[1].sig = outcome[2].sig
              /\ SortedDistinct(outcome[1], pair[1])
              /\ SortedDistinct(outcome[2], pair[2])

\* Two documents that differ only in the order of two keys.
EmptyStructFirst == Dict(<<Item("a", Dict(<<>>)), Item("b", List(<<>>))>>)
EmptyArrayFirst == Dict(<<Item("b", List(<<>>)), Item("a", Dict(<<>>))>>)

\* C9: the passes with typedef_signatures on over {"a": {}, "b": []} and over
\* {"b": [], "a": {}}, documents that differ only in key order, both return and
\* leave different registries: the shapes ("struct",) and ("array",) each get
\* one name in the first pass and another in the second.
C9_NamingFollowsDiscovery ==
    (Done /\ args.typedef_signatures
          /\ pair = <<EmptyStructFirst, EmptyArrayFirst>>) =>
        LET first == outcome[1].context.sig_to_typedef
            second == outcome[2].context.sig_to_typedef
        IN  /\ SameUpToKeyOrder(pair[1], pair[2])
            /\ outcome[1].err = ""
            /\ outcome[2].err = ""
            /\ outcome[1].context # outcome[2].context
            /\ \A shape \in {PyTuple("struct", <<>>), PyTuple("array", <<>>)} :
                  /\ Has(first, shape)
                  /\ Has(second, shape)
                  /\ Typedef(first, shape) # Typedef(second, shape)

\* both passes over the two documents have ended, typedef_signatures on
C9_Witness ==
    /\ Done
    /\ args.typedef_signatures
    /\ pair = <<EmptyStructFirst, EmptyArrayFirst>>
    /\ outcome[1].context.sig_count = 3
    /\ outcome[2].context.sig_count = 3

(***************************************************************************)
(* Properties of fillsig.                                                  *)
(***************************************************************************)
IsRegion(e) == e.t = "dict" /\ region_keys \cap Keys(e) # {}
\* what fillsig returns for a value
Normal(e) == fillsig(args, e, context).val

\* the four keys of fillout hold the integers of the line-info resolver
HoldsLineInfo ==
    /\ fillout.t = "dict"
    /\ region_keys \subseteq Keys(fillout)
    /\ Lookup(fillout, "startLine") = PyInt(lineinfo(fillin)[1])
    /\ Lookup(fillout, "startColumn") = PyInt(lineinfo(fillin)[2])
    /\ Lookup(fillout, "endLine") = PyInt(lineinfo(fillin)[3])
    /\ Lookup(fillout, "endColumn") = PyInt(lineinfo(fillin)[4])
    /\ Keys(fillout) \ region_keys = Keys(fillin) \ region_keys

\* C5 as stated: for an object with at least one of the four Region keys,
\* fillsig returns an object with all four, each the resolver's integer, and the
\* other keys exactly the original extra keys with their original values.
C5_RegionFillingUntouched ==
    (status # "idle" /\ IsRegion(fillin) /\ WellFormed(fillin)) =>
        /\ status = "filled"
        /\ HoldsLineInfo
        /\ \A key \in Keys(fillin) \ region_keys :
              Lookup(fillout, key) = Lookup(fillin, key)

\* C5 amended: the other keys are exactly the original extra keys, each with
\* its original value normalized by fillsig in turn.
C5_RegionFilling ==
    (status # "idle" /\ IsRegion(fillin) /\ WellFormed(fillin)) =>
        /\ status = "filled"
        /\ HoldsLineInfo
        /\ \A key \in Keys(fillin) \ region_keys :
              Lookup(fillout, key) = Normal(Lookup(fillin, key))

\* fillsig has returned for a Region with a key missing and an extra key whose
\* value it normalized
C5_Witness ==
    /\ status = "filled"
    /\ IsRegion(fillin)
    /\ ~(region_keys \subseteq Keys(fillin))
    /\ \E key \in Keys(fillin) \ region_keys :
          Lookup(fillout, key) # Lookup(fillin, key)

\* the keys of fillin, region apart, are those of fillout, each value normalized
OthersKept ==
    /\ fillout.t = "dict"
    /\ Keys(fillout) \ {"region"} = Keys(fillin) \ {"region"}
    /\ \A key \in Keys(fillin) \ {"region"} :
          Lookup(fillout, key) = Normal(Lookup(fillin, key))

\* C6 as stated: for any object with the key artifactLocation or region and no
\* region key, fillsig returns an object whose region is the all -1 Region, the
\* other fields kept.
C6_PhysicalLocationAny ==
    (status # "idle" /\ fillin.t = "dict" /\ WellFormed(fillin)
          /\ physicalLocation_keys \cap Keys(fillin) # {}
          /\ "region" \notin Keys(fillin)) =>
        /\ status = "filled"
        /\ OthersKept
        /\ "region" \in Keys(fillout)
        /\ Lookup(fillout, "region") = dummy_region

\* C6 amended: the same for an object that has none of the four Region keys.
C6_PhysicalLocationFilling ==
    (status # "idle" /\ fillin.t = "dict" /\ WellFormed(fillin)
          /\ physicalLocation_keys \cap Keys(fillin) # {}
          /\ "region" \notin Keys(fillin)
          /\ region_keys \cap Keys(fillin) = {}) =>
        /\ status = "filled"
        /\ OthersKept
        /\ "region" \in Keys(fillout)
        /\ Lookup(fillout, "region") = dummy_region

\* fillsig has returned for an object with artifactLocation, another key, no
\* region and no Region key
C6_Witness ==
    /\ status = "filled"
    /\ fillin.t = "dict"
    /\ "artifactLocation" \in Keys(fillin)
    /\ "region" \notin Keys(fillin)
    /\ region_keys \cap Keys(fillin) = {}
    /\ Cardinality(Keys(fillin)) = 2

\* the keys of object e are in ascending order
Ascending(e) ==
    \A i, j \in 1..Len(e.kids) : i < j => Rank(e.kids[i].key) < Rank(e.kids[j].key)

\* C10 as stated: a Region is emitted with the four Region fields first and the
\* remaining fields after them in sorted order, any other object with its keys
\* in sorted order.
C10_RegionFieldsFirst ==
    (status = "filled" /\ fillin.t = "dict") =>
        IF IsRegion(fillin)
        THEN /\ Len(fillout.kids) >= 4
             /\ {fillout.kids[i].key : i \in 1..4} = region_keys
             /\ \A i, j \in 5..Len(fillout.kids) :
                   i < j => Rank(fillout.kids[i].key) < Rank(fillout.kids[j].key)
        ELSE Ascending(fillout)

\* C10 amended: every object fillsig emits, a Region too, at any depth, has all
\* its keys in sorted order.
C10_SortedKeys ==
    status = "filled" =>
        \A e \in Nodes(fillout) : e.t = "dict" => Ascending(e)

\* fillsig has returned a Region whose first key is none of the four, for an
\* input whose keys were not in sorted order
C10_Witness ==
    /\ status = "filled"
    /\ IsRegion(fillin)
    /\ fillout.kids[1].key \notin region_keys
    /\ ~Ascending(fillin)

====
